---- MODULE Spec2Model ----
(***************************************************************************)
(* Kitchen assistant: the transaction ledger (lib/db.ts with its Postgres, *)
(* Blob and local-file backends), the unit normalizer, the fold that       *)
(* derives the inventory snapshot, and the API route that drives them.     *)
(*                                                                         *)
(* Strings that the code inspects (unit labels, item names) are sequences  *)
(* of one-character strings, so that toLowerCase and trim are computed.    *)
(* Quantities are integers (the code uses doubles; no bound used here      *)
(* reaches a value a double cannot hold exactly).                          *)
(***************************************************************************)
EXTENDS Integers, Sequences, FiniteSets, TLC

VARIABLES
  transactions,   \* SpecFold: the history getInventory folds
  inventoryMap,   \* SpecFold: getInventory's Map after the loop
  result,         \* SpecFold: the snapshot getInventory returns
  env,            \* process.env: which backend is configured, NODE_ENV
  now,            \* the clock read by Date.now()
  pgTable,        \* the Postgres table `transactions`
  blobFile,       \* the blob transactions.json
  dataFile,       \* the local file data/transactions.json
  req,            \* the HTTP requests being served, each with its locals
  faults,         \* I/O failures the environment has injected so far
  lastRead,       \* history: what getTransactions returned last
  calls,          \* SpecCalls: getInventory calls since the last append
  raw,            \* SpecNormalize: the quantity and unit label handed in
  unitResult,     \* SpecNormalize: what normalize returned for them
  unitAgain,      \* SpecNormalize: what normalize returned for its own result
  localStorage,   \* SpecClient: the browser's item 'kitchen_transactions'
  inventory,      \* SpecClient: the page's state `inventory`
  handled,        \* SpecClient: history, the command processCommand handled last
  pgResult        \* SpecBackends: what getInventory returned on Postgres

foldVars == <<transactions, inventoryMap, result>>
serverVars == <<env, now, pgTable, blobFile, dataFile, req, faults, lastRead>>
unitVars == <<raw, unitResult, unitAgain>>
clientVars == <<localStorage, inventory, handled>>
vars == <<transactions, inventoryMap, result,
          env, now, pgTable, blobFile, dataFile, req, faults, lastRead,
          calls, raw, unitResult, unitAgain,
          localStorage, inventory, handled, pgResult>>

(***************************************************************************)
(* Bounds of the model.                                                    *)
(***************************************************************************)
\* longest history folded under SpecFold
MaxLen == 3
\* largest quantity of a stored transaction under SpecFold
MaxQty == 2
\* HTTP requests served under Spec, concurrently or one after another
NumReqs == 2
\* largest value of the clock under Spec
MaxClock == 1
\* I/O failures injected under Spec
MaxFaults == 1
\* longest history under SpecCalls
MaxHistory == 2
\* getInventory calls on one history under SpecCalls
MaxCalls == 3
\* largest absolute value of a raw quantity under SpecNormalize
MaxRawQty == 2
\* commands recorded in the browser under SpecClient
MaxCommands == 2

(***************************************************************************)
(* Strings.                                                                *)
(***************************************************************************)
\* the value of an optional field that is absent (JavaScript undefined);
\* no string of the model is equal to it
undefined == <<"undefined">>

UpperChars == <<"A","B","C","D","E","F","G","H","I","J","K","L","M","N","O","P","Q","R","S","T","U","V","W","X","Y","Z","Ä","Ö","Ü">>
LowerChars == <<"a","b","c","d","e","f","g","h","i","j","k","l","m","n","o","p","q","r","s","t","u","v","w","x","y","z","ä","ö","ü">>
WhiteSpace == {" ", "\t", "\n"}

\* String.prototype.toLowerCase
lowerOf == [c \in {UpperChars[j] : j \in DOMAIN UpperChars} |->
              LowerChars[CHOOSE j \in DOMAIN UpperChars : UpperChars[j] = c]]
lowerChar(c) == IF c \in DOMAIN lowerOf THEN lowerOf[c] ELSE c
\* a plausible bug: names and labels are compared as they were typed
toLowerCase_identity(s) == s

toLowerCase(s) == [i \in DOMAIN s |-> lowerChar(s[i])]

\* String.prototype.trim
trim(s) ==
  LET keep == {i \in DOMAIN s : s[i] \notin WhiteSpace}
  IN IF keep = {} THEN <<>>
     ELSE LET lo == CHOOSE i \in keep : \A j \in keep : i <= j
              hi == CHOOSE i \in keep : \A j \in keep : j <= i
          IN SubSeq(s, lo, hi)

\* JavaScript truthiness of an optional string: undefined and "" are falsy
truthy(s) == s # undefined /\ s # <<>>

\* the canonical units the code produces
stueck == <<"s","t","ü","c","k">>
g == <<"g">>
ml == <<"m","l">>

(***************************************************************************)
(* normalize (lib/db.ts).                                                  *)
(***************************************************************************)
\* a plausible bug: a missing label is handed on as it came
normalize_absentKept(quantity, unit) ==
  IF ~truthy(unit) THEN [quantity |-> quantity, unit |-> unit]
  ELSE LET u == trim(toLowerCase(unit))
       IN IF u \in {<<"k","g">>, <<"k","i","l","o">>, <<"k","i","l","o","g","r","a","m","m">>}
            THEN [quantity |-> quantity * 1000, unit |-> g]
          ELSE IF u \in {<<"g">>, <<"g","r","a","m","m">>, <<"g","r">>} THEN [quantity |-> quantity, unit |-> g]
          ELSE IF u \in {<<"l">>, <<"l","i","t","e","r">>} THEN [quantity |-> quantity * 1000, unit |-> ml]
          ELSE IF u \in {<<"m","l">>, <<"m","i","l","l","i","l","i","t","e","r">>} THEN [quantity |-> quantity, unit |-> ml]
          ELSE [quantity |-> quantity, unit |-> u]

\* a plausible bug: kilograms are renamed to grams without being scaled
normalize_massUnscaled(quantity, unit) ==
  IF ~truthy(unit) THEN [quantity |-> quantity, unit |-> stueck]
  ELSE LET u == trim(toLowerCase(unit))
       IN IF u \in {<<"k","g">>, <<"k","i","l","o">>, <<"k","i","l","o","g","r","a","m","m">>}
            THEN [quantity |-> quantity, unit |-> g]
          ELSE IF u \in {<<"g">>, <<"g","r","a","m","m">>, <<"g","r">>} THEN [quantity |-> quantity, unit |-> g]
          ELSE IF u \in {<<"l">>, <<"l","i","t","e","r">>} THEN [quantity |-> quantity * 1000, unit |-> ml]
          ELSE IF u \in {<<"m","l">>, <<"m","i","l","l","i","l","i","t","e","r">>} THEN [quantity |-> quantity, unit |-> ml]
          ELSE [quantity |-> quantity, unit |-> u]

\* a plausible bug: liters are renamed to milliliters without being scaled
normalize_volumeUnscaled(quantity, unit) ==
  IF ~truthy(unit) THEN [quantity |-> quantity, unit |-> stueck]
  ELSE LET u == trim(toLowerCase(unit))
       IN IF u \in {<<"k","g">>, <<"k","i","l","o">>, <<"k","i","l","o","g","r","a","m","m">>}
            THEN [quantity |-> quantity * 1000, unit |-> g]
          ELSE IF u \in {<<"g">>, <<"g","r","a","m","m">>, <<"g","r">>} THEN [quantity |-> quantity, unit |-> g]
          ELSE IF u \in {<<"l">>, <<"l","i","t","e","r">>} THEN [quantity |-> quantity, unit |-> ml]
          ELSE IF u \in {<<"m","l">>, <<"m","i","l","l","i","l","i","t","e","r">>} THEN [quantity |-> quantity, unit |-> ml]
          ELSE [quantity |-> quantity, unit |-> u]

normalize(quantity, unit) ==
  IF ~truthy(unit) THEN [quantity |-> quantity, unit |-> stueck]
  ELSE LET u == trim(toLowerCase(unit))
       IN IF u \in {<<"k","g">>, <<"k","i","l","o">>, <<"k","i","l","o","g","r","a","m","m">>}
            THEN [quantity |-> quantity * 1000, unit |-> g]
          ELSE IF u \in {<<"g">>, <<"g","r","a","m","m">>, <<"g","r">>}
            THEN [quantity |-> quantity, unit |-> g]
          ELSE IF u \in {<<"l">>, <<"l","i","t","e","r">>}
            THEN [quantity |-> quantity * 1000, unit |-> ml]
          ELSE IF u \in {<<"m","l">>, <<"m","i","l","l","i","l","i","t","e","r">>}
            THEN [quantity |-> quantity, unit |-> ml]
          ELSE [quantity |-> quantity, unit |-> u]

(***************************************************************************)
(* getInventory's fold (lib/db.ts).  inventoryMap is a JavaScript Map: its *)
(* entries are kept, and iterated, in insertion order, so it is a sequence *)
(* of entries [key, quantity, unit].                                       *)
(***************************************************************************)
has(map, key) == \E i \in DOMAIN map : map[i].key = key
indexOf(map, key) == CHOOSE i \in DOMAIN map : map[i].key = key
get(map, key) == map[indexOf(map, key)]

\* a plausible bug: a new key starts without a unit
lazyInit_unset(map, tx) ==
  LET key == toLowerCase(tx.name)
  IN IF has(map, key) THEN map
     ELSE Append(map, [key |-> key, quantity |-> 0, unit |-> undefined])

\* if (!inventoryMap.has(key)) inventoryMap.set(key, {quantity: 0, unit: tx.unit || 'stück'})
lazyInit(map, tx) ==
  LET key == toLowerCase(tx.name)
  IN IF has(map, key) THEN map
     ELSE Append(map, [key |-> key, quantity |-> 0,
                       unit |-> IF truthy(tx.unit) THEN tx.unit ELSE stueck])

\* a plausible bug: an Add on a zero balance keeps the unit the key had
applyADD_keepUnit(current, tx) ==
  [current EXCEPT !.quantity = @ + tx.quantity]

\* the ADD branch: all three arms add tx.quantity; only the first sets the unit
applyADD(current, tx) ==
  IF current.quantity = 0
    THEN [current EXCEPT !.unit = tx.unit, !.quantity = @ + tx.quantity]
  ELSE IF current.unit = tx.unit
    THEN [current EXCEPT !.quantity = @ + tx.quantity]
  ELSE [current EXCEPT !.quantity = @ + tx.quantity]

\* a plausible bug: the subtraction is applied whatever the unit (as the
\* browser-side calculateInventory does)
applyREMOVE_anyUnit(current, tx) ==
  [current EXCEPT !.quantity = @ - tx.quantity]

\* a plausible bug: the balance is clamped at zero when it is stored
applyREMOVE_clamped(current, tx) ==
  IF current.unit = tx.unit
    THEN [current EXCEPT !.quantity = IF @ - tx.quantity < 0 THEN 0 ELSE @ - tx.quantity]
  ELSE current

\* the REMOVE branch: subtract on equal units, else nothing
applyREMOVE(current, tx) ==
  IF current.unit = tx.unit
    THEN [current EXCEPT !.quantity = @ - tx.quantity]
  ELSE current

\* one iteration of `for (const tx of transactions)`
foldStep(map, tx) ==
  LET m == lazyInit(map, tx)
      i == indexOf(m, toLowerCase(tx.name))
  IN IF tx.type = "ADD" THEN [m EXCEPT ![i] = applyADD(m[i], tx)]
     ELSE IF tx.type = "REMOVE" THEN [m EXCEPT ![i] = applyREMOVE(m[i], tx)]
     ELSE m

\* a plausible bug: the Map is a module-level object that every call of
\* getInventory goes on filling
newMap_kept == inventoryMap

\* const inventoryMap = new Map<...>(): each call starts from an empty Map
newMap == <<>>

\* the whole loop
RECURSIVE fold(_)
fold(txs) ==
  IF txs = <<>> THEN newMap
  ELSE foldStep(fold(SubSeq(txs, 1, Len(txs) - 1)), txs[Len(txs)])

\* transactions.slice().reverse().find(t => t.name.toLowerCase() === key),
\* then `lastTx ? lastTx.name : key`
displayName(txs, key) ==
  LET hits == {i \in DOMAIN txs : toLowerCase(txs[i].name) = key}
  IN IF hits = {} THEN key
     ELSE txs[CHOOSE i \in hits : \A j \in hits : j <= i].name

\* a plausible bug: the filter lets a zero balance through
emitted_nonNegative(value) == value.quantity >= 0

\* the filter of the emission loop
emitted(value) == value.quantity > 0

\* inventoryMap.forEach(...): one item per entry that passes the filter, in
\* the map's order
RECURSIVE emit(_, _)
emit(map, txs) ==
  IF map = <<>> THEN <<>>
  ELSE LET rest == emit(SubSeq(map, 1, Len(map) - 1), txs)
           value == map[Len(map)]
       IN IF emitted(value)
            THEN Append(rest, [name |-> displayName(txs, value.key),
                               quantity |-> value.quantity,
                               unit |-> value.unit])
          ELSE rest

\* getInventory applied to the history that getTransactions returned
aggregate(txs) == emit(fold(txs), txs)

(***************************************************************************)
(* calculateInventory (app/page.tsx), the browser's copy of the fold.      *)
(***************************************************************************)
\* the ADD branch: on a zero balance the unit is tx.unit || 'stück'; else a
\* plain sum
clientADD(current, tx) ==
  IF current.quantity = 0
    THEN [current EXCEPT !.unit = IF truthy(tx.unit) THEN tx.unit ELSE stueck,
                         !.quantity = @ + tx.quantity]
  ELSE [current EXCEPT !.quantity = @ + tx.quantity]

\* the REMOVE branch: the unit is not looked at
clientREMOVE(current, tx) == [current EXCEPT !.quantity = @ - tx.quantity]

\* one iteration of the loop; the key and its lazy initialisation are those
\* of getInventory, word for word
clientStep(map, tx) ==
  LET m == lazyInit(map, tx)
      i == indexOf(m, toLowerCase(tx.name))
  IN IF tx.type = "ADD" THEN [m EXCEPT ![i] = clientADD(m[i], tx)]
     ELSE IF tx.type = "REMOVE" THEN [m EXCEPT ![i] = clientREMOVE(m[i], tx)]
     ELSE m

RECURSIVE clientFold(_)
clientFold(txs) ==
  IF txs = <<>> THEN <<>>
  ELSE clientStep(clientFold(SubSeq(txs, 1, Len(txs) - 1)), txs[Len(txs)])

\* the emission loop is that of getInventory, word for word
calculateInventory(txs) == emit(clientFold(txs), txs)

(***************************************************************************)
(* Spec: the server.  Each request is one run of the route's GET or POST   *)
(* handler; every `await` is a point where other requests may run.         *)
(***************************************************************************)
Reqs == 1..NumReqs

\* the random suffix of an id (Math.random().toString(36).substr(2, 9))
IdSuffixes == {"a", "b"}

\* a JSON value as `typeof` sees it
number(n) == [typeof |-> "number", value |-> n]
absent == [typeof |-> "undefined", value |-> 0]

\* parseCommand got no usable answer (no API key, an empty text, or an
\* exception)
NoResponse == [action |-> "", item |-> undefined, quantity |-> absent, unit |-> undefined]

\* what JSON.parse(responseText) gives: the language model's answer.  A unit
\* is any string the model wrote, a blank one included; the quantity and
\* the item may be missing.
Answers ==
  { [action |-> "add",    item |-> <<"E","i">>, quantity |-> number(2), unit |-> undefined],
    [action |-> "add",    item |-> <<"e","i">>, quantity |-> number(1), unit |-> <<"K","g">>],
    [action |-> "remove", item |-> <<"E","i">>, quantity |-> absent,    unit |-> undefined],
    [action |-> "add",    item |-> <<"E","i">>, quantity |-> number(1), unit |-> <<" ">>],
    [action |-> "add",    item |-> undefined,   quantity |-> number(1), unit |-> undefined],
    NoResponse }

\* a plausible bug: a quantity that is no number is handed on as absent
\* (0 stands for the falsy `undefined`)
parseCommand_noDefault(parsedData) ==
  IF parsedData = NoResponse
    THEN [action |-> "unknown", item |-> undefined, quantity |-> 0, unit |-> undefined]
  ELSE [action |-> IF parsedData.action \in {"add", "remove"} THEN parsedData.action
                   ELSE "unknown",
        item |-> parsedData.item,
        quantity |-> IF parsedData.quantity.typeof = "number"
                       THEN parsedData.quantity.value ELSE 0,
        unit |-> IF truthy(parsedData.unit) THEN parsedData.unit ELSE undefined]

\* parseCommand, from the parsed answer on.  { action: 'unknown' } carries no
\* item and no quantity (0 stands for the falsy `undefined`).
parseCommand(parsedData) ==
  IF parsedData = NoResponse
    THEN [action |-> "unknown", item |-> undefined, quantity |-> 0, unit |-> undefined]
  ELSE [action |-> IF parsedData.action \in {"add", "remove"} THEN parsedData.action
                   ELSE "unknown",
        item |-> parsedData.item,
        quantity |-> IF parsedData.quantity.typeof = "number"
                       THEN parsedData.quantity.value ELSE 1,
        unit |-> IF truthy(parsedData.unit) THEN parsedData.unit ELSE undefined]

\* what parseCommand returns
Intents == {parseCommand(parsedData) : parsedData \in Answers}

\* the configurations of process.env
Envs ==
  { [USE_POSTGRES |-> TRUE,  USE_BLOB |-> FALSE, production |-> TRUE],
    [USE_POSTGRES |-> TRUE,  USE_BLOB |-> TRUE,  production |-> TRUE],
    [USE_POSTGRES |-> FALSE, USE_BLOB |-> TRUE,  production |-> TRUE],
    [USE_POSTGRES |-> FALSE, USE_BLOB |-> FALSE, production |-> FALSE],
    [USE_POSTGRES |-> FALSE, USE_BLOB |-> FALSE, production |-> TRUE] }

\* interface Transaction
Transaction(id, timestamp, type, name, quantity, unit) ==
  [id |-> id, timestamp |-> timestamp, type |-> type, name |-> name,
   quantity |-> quantity, unit |-> unit]

NoTransaction == Transaction(<<0, "">>, 0, "NONE", <<>>, 0, undefined)
NoIntent == [action |-> "none", item |-> undefined, quantity |-> 0, unit |-> undefined]

\* a request that has not arrived yet
IdleReq ==
  [pc |-> "idle", method |-> "none", parsed |-> NoIntent,
   answer |-> NoResponse,      \* history: the answer `parsed` was made from
   newTransaction |-> NoTransaction,
   inAdd |-> FALSE,            \* the read in progress is addTransaction's
   transactions |-> <<>>,      \* the local `transactions`
   status |-> 0, inventory |-> <<>>,   \* the response
   \* history, read by the claims only:
   added |-> FALSE,            \* addTransaction returned without throwing
   readFailed |-> FALSE]       \* the read in progress (or just done) failed

\* the dispatch of getTransactions and addTransaction
backend ==
  IF env.USE_POSTGRES THEN "pg" ELSE IF env.USE_BLOB THEN "blob" ELSE "local"

\* what the active backend durably holds
Stored ==
  IF backend = "pg" THEN pgTable.rows
  ELSE IF backend = "blob" THEN blobFile.data
  ELSE dataFile.data

Range(seq) == {seq[i] : i \in DOMAIN seq}
IsPrefix(a, b) == Len(a) <= Len(b) /\ SubSeq(b, 1, Len(a)) = a

\* an I/O operation succeeds, or fails while the environment may still fail
Outcomes == IF faults < MaxFaults THEN {"ok", "fail"} ELSE {"ok"}
Charge(outcome) == faults' = IF outcome = "fail" THEN faults + 1 ELSE faults

InitServer ==
  /\ env \in Envs
  /\ now = 0
  /\ pgTable = [exists |-> FALSE, rows |-> <<>>]
  /\ blobFile = [exists |-> FALSE, data |-> <<>>]
  /\ dataFile = [exists |-> FALSE, data |-> <<>>]
  /\ req = [r \in Reqs |-> IdleReq]
  /\ faults = 0
  /\ lastRead = <<>>
  /\ pgResult = <<>>

\* normalize has not been called
NotNormalized == [quantity |-> 0, unit |-> undefined]

\* normalize stands idle outside SpecNormalize
IdleUnits ==
  /\ raw = [quantity |-> 0, unit |-> undefined]
  /\ unitResult = NotNormalized
  /\ unitAgain = NotNormalized

\* processCommand has handled nothing yet
NotHandled == [answer |-> NoResponse, status |-> 0, recorded |-> FALSE]

\* the browser stands idle outside SpecClient
IdleClient ==
  /\ localStorage = <<>>
  /\ inventory = <<>>
  /\ handled = NotHandled

Init ==
  /\ InitServer
  /\ transactions = <<>> /\ inventoryMap = <<>> /\ result = <<>>
  /\ calls = 0
  /\ IdleUnits
  /\ IdleClient

\* requests arrive in the order of their numbers
MayStart(r) == req[r].pc = "idle" /\ (r > 1 => req[r - 1].pc # "idle")

\* the first step of a read of the active backend
readEntry == IF backend = "pg" THEN "pgSelect"
             ELSE IF backend = "blob" THEN "blobFetch" ELSE "access"
\* the first step of a write to the active backend
addEntry == IF backend = "pg" THEN "pgInsert"
            ELSE IF backend = "blob" THEN "blobFetch" ELSE "access"
\* the write that follows the read of a read-then-overwrite backend
writeEntry == IF backend = "blob" THEN "blobPut" ELSE "writeFile"

\* getInventory returns: the fold of what getTransactions returned, sent
\* with status 200 by GET and by POST alike
respond(r, txs, failed) ==
  [req[r] EXCEPT !.pc = "done", !.inAdd = FALSE, !.transactions = txs,
                 !.status = 200, !.inventory = aggregate(txs),
                 !.readFailed = failed]

\* a rejected promise reaches POST's catch (or the framework, for GET)
internalError(r) == [req[r] EXCEPT !.pc = "done", !.status = 500]

\* (variant: production is not told apart, the local file serves it too)
noBackend_never == FALSE

\* getTransactions in production without Postgres or Blob returns [] at once
noBackend == backend = "local" /\ env.production

\* getInventory begins: getTransactions dispatches on the backend
beginInventory(rq) ==
  [rq EXCEPT !.pc = readEntry, !.inAdd = FALSE, !.transactions = <<>>,
             !.readFailed = FALSE]

\* addTransaction has returned: POST goes on to getInventory
addReturned(r) == [beginInventory(req[r]) EXCEPT !.added = TRUE]

\* GET: await getInventory()
GET(r) ==
  /\ MayStart(r)
  /\ IF noBackend
       THEN /\ req' = [req EXCEPT ![r] = [respond(r, <<>>, FALSE) EXCEPT !.method = "GET"]]
            /\ lastRead' = <<>>
       ELSE /\ req' = [req EXCEPT ![r] = [beginInventory(req[r]) EXCEPT !.method = "GET"]]
            /\ UNCHANGED lastRead
  /\ UNCHANGED <<env, now, pgTable, blobFile, dataFile, faults, foldVars, calls, unitVars, clientVars, pgResult>>

\* the guard of POST: a known action, an item and a non-zero quantity
accepted(parsed) ==
  /\ parsed.action \in {"add", "remove"}
  /\ truthy(parsed.item)
  /\ parsed.quantity # 0

\* addTransaction up to its dispatch: id, timestamp, normalize
newTransactionOf(parsed, time, suffix) ==
  LET normalized == normalize(parsed.quantity, parsed.unit)
  IN Transaction(<<time, suffix>>, time,
                 IF parsed.action = "add" THEN "ADD" ELSE "REMOVE",
                 parsed.item, normalized.quantity, normalized.unit)

\* POST: parseCommand, the guard, then addTransaction up to its first await.
\* Date.now() returns the clock, which has not gone back since it was last
\* read; the first request's random suffix is "a" (the suffixes are
\* interchangeable).
POST(r) ==
  /\ MayStart(r)
  /\ \E parsedData \in Answers, time \in now..MaxClock, suffix \in IdSuffixes :
     LET parsed == parseCommand(parsedData)
     IN
       /\ r = 1 => suffix = "a"
       /\ IF ~accepted(parsed)
            THEN /\ req' = [req EXCEPT ![r] = [@ EXCEPT !.pc = "done", !.method = "POST",
                                                         !.answer = parsedData,
                                                         !.parsed = parsed, !.status = 400]]
                 /\ UNCHANGED now
          ELSE IF noBackend
            \* addTransactionLocal throws before any I/O
            THEN /\ req' = [req EXCEPT ![r] =
                              [@ EXCEPT !.pc = "done", !.method = "POST",
                                        !.answer = parsedData,
                                        !.parsed = parsed, !.status = 500,
                                        !.newTransaction = newTransactionOf(parsed, time, suffix)]]
                 /\ now' = time
          ELSE /\ req' = [req EXCEPT ![r] =
                            [@ EXCEPT !.pc = addEntry, !.method = "POST",
                                      !.answer = parsedData,
                                      !.parsed = parsed, !.inAdd = TRUE,
                                      !.newTransaction = newTransactionOf(parsed, time, suffix)]]
               /\ now' = time
  /\ UNCHANGED <<env, pgTable, blobFile, dataFile, faults, lastRead, foldVars, calls, unitVars, clientVars, pgResult>>

\* the read of getTransactionsLocal / getTransactionsBlob has produced txs
\* ([] from its catch when it failed): inside addTransaction the overwrite
\* follows, inside getInventory the response
readDone(r, txs, failed) ==
  IF req[r].inAdd
    THEN /\ req' = [req EXCEPT ![r] = [@ EXCEPT !.pc = writeEntry, !.transactions = txs,
                                                 !.readFailed = @ \/ failed]]
         /\ UNCHANGED lastRead
  ELSE /\ req' = [req EXCEPT ![r] = respond(r, txs, req[r].readFailed \/ failed)]
       /\ lastRead' = txs

(***************************************************************************)
(* The local-file backend.                                                 *)
(***************************************************************************)
\* ensureDataFile: fs.access(DATA_FILE); any error counts as "no file"
ensureDataFile_access(r) ==
  /\ req[r].pc = "access"
  /\ \E outcome \in Outcomes :
       /\ Charge(outcome)
       /\ req' = [req EXCEPT ![r] =
                    [@ EXCEPT !.pc = IF outcome = "ok" /\ dataFile.exists
                                       THEN "readFile" ELSE "create",
                              !.readFailed = (outcome = "fail")]]
  /\ UNCHANGED <<env, now, pgTable, blobFile, dataFile, lastRead, foldVars, calls, unitVars, clientVars, pgResult>>

\* ensureDataFile: mkdir, then fs.writeFile(DATA_FILE, '[]')
ensureDataFile_create(r) ==
  /\ req[r].pc = "create"
  /\ \E outcome \in Outcomes :
       /\ Charge(outcome)
       /\ IF outcome = "ok"
            THEN /\ dataFile' = [exists |-> TRUE, data |-> <<>>]
                 /\ req' = [req EXCEPT ![r].pc = "readFile"]
                 /\ UNCHANGED lastRead
          ELSE /\ UNCHANGED dataFile
               /\ readDone(r, <<>>, TRUE)
  /\ UNCHANGED <<env, now, pgTable, blobFile, foldVars, calls, unitVars, clientVars, pgResult>>

\* getTransactionsLocal: fs.readFile and JSON.parse, [] on any error
getTransactionsLocal(r) ==
  /\ req[r].pc = "readFile"
  /\ \E outcome \in Outcomes :
       /\ Charge(outcome)
       /\ IF outcome = "ok" /\ dataFile.exists
            THEN readDone(r, dataFile.data, FALSE)
          ELSE readDone(r, <<>>, TRUE)
  /\ UNCHANGED <<env, now, pgTable, blobFile, dataFile, foldVars, calls, unitVars, clientVars, pgResult>>

\* addTransactionLocal: push, then fs.writeFile of the whole array
addTransactionLocal(r) ==
  /\ req[r].pc = "writeFile"
  /\ \E outcome \in Outcomes :
       /\ Charge(outcome)
       /\ IF outcome = "ok"
            THEN /\ dataFile' = [exists |-> TRUE,
                                 data |-> Append(req[r].transactions, req[r].newTransaction)]
                 /\ req' = [req EXCEPT ![r] = addReturned(r)]
          ELSE /\ UNCHANGED dataFile
               /\ req' = [req EXCEPT ![r] = internalError(r)]
  /\ UNCHANGED <<env, now, pgTable, blobFile, lastRead, foldVars, calls, unitVars, clientVars, pgResult>>

(***************************************************************************)
(* The Blob backend.                                                       *)
(***************************************************************************)
\* getTransactionsBlob: fetch the blob; [] when there is none, and [] from
\* the catch on any error
getTransactionsBlob(r) ==
  /\ req[r].pc = "blobFetch"
  /\ \E outcome \in Outcomes :
       /\ Charge(outcome)
       /\ IF outcome = "ok"
            THEN readDone(r, IF blobFile.exists THEN blobFile.data ELSE <<>>, FALSE)
          ELSE readDone(r, <<>>, TRUE)
  /\ UNCHANGED <<env, now, pgTable, blobFile, dataFile, foldVars, calls, unitVars, clientVars, pgResult>>

\* addTransactionBlob: push, then put() overwrites the blob
addTransactionBlob(r) ==
  /\ req[r].pc = "blobPut"
  /\ \E outcome \in Outcomes :
       /\ Charge(outcome)
       /\ IF outcome = "ok"
            THEN /\ blobFile' = [exists |-> TRUE,
                                 data |-> Append(req[r].transactions, req[r].newTransaction)]
                 /\ req' = [req EXCEPT ![r] = addReturned(r)]
          ELSE /\ UNCHANGED blobFile
               /\ req' = [req EXCEPT ![r] = internalError(r)]
  /\ UNCHANGED <<env, now, pgTable, dataFile, lastRead, foldVars, calls, unitVars, clientVars, pgResult>>

(***************************************************************************)
(* The Postgres backend.                                                   *)
(***************************************************************************)
\* INSERT INTO transactions ...: id is the primary key
insertRow(r) ==
  IF \E i \in DOMAIN pgTable.rows : pgTable.rows[i].id = req[r].newTransaction.id
    THEN /\ UNCHANGED pgTable
         /\ req' = [req EXCEPT ![r] = internalError(r)]
  ELSE /\ pgTable' = [pgTable EXCEPT !.rows = Append(@, req[r].newTransaction)]
       /\ req' = [req EXCEPT ![r] = addReturned(r)]

\* addTransactionPG: the INSERT inside the try
addTransactionPG(r) ==
  /\ req[r].pc = "pgInsert"
  /\ \E outcome \in Outcomes :
       /\ Charge(outcome)
       /\ IF outcome = "fail"
            THEN /\ UNCHANGED pgTable
                 /\ req' = [req EXCEPT ![r] = internalError(r)]
          ELSE IF ~pgTable.exists
            THEN /\ UNCHANGED pgTable
                 /\ req' = [req EXCEPT ![r].pc = "pgEnsureAdd"]
          ELSE insertRow(r)
  /\ UNCHANGED <<env, now, blobFile, dataFile, lastRead, foldVars, calls, unitVars, clientVars, pgResult>>

\* ensureTable (CREATE TABLE IF NOT EXISTS), called from a catch block
ensureTable(r) ==
  /\ req[r].pc \in {"pgEnsureAdd", "pgEnsureRead"}
  /\ \E outcome \in Outcomes :
       /\ Charge(outcome)
       /\ IF outcome = "fail"
            THEN /\ UNCHANGED <<pgTable, lastRead>>
                 /\ req' = [req EXCEPT ![r] = internalError(r)]
          ELSE /\ pgTable' = [pgTable EXCEPT !.exists = TRUE]
               /\ IF req[r].pc = "pgEnsureAdd"
                    THEN /\ req' = [req EXCEPT ![r].pc = "pgRetry"]
                         /\ UNCHANGED lastRead
                  \* getTransactionsPG: `return []` after ensureTable
                  ELSE /\ req' = [req EXCEPT ![r] = respond(r, <<>>, FALSE)]
                       /\ lastRead' = <<>>
  /\ UNCHANGED <<env, now, blobFile, dataFile, foldVars, calls, unitVars, clientVars, pgResult>>

\* addTransactionPG: the INSERT repeated in the catch block
addTransactionPG_retry(r) ==
  /\ req[r].pc = "pgRetry"
  /\ \E outcome \in Outcomes :
       /\ Charge(outcome)
       /\ IF outcome = "fail" \/ ~pgTable.exists
            THEN /\ UNCHANGED pgTable
                 /\ req' = [req EXCEPT ![r] = internalError(r)]
          ELSE insertRow(r)
  /\ UNCHANGED <<env, now, blobFile, dataFile, lastRead, foldVars, calls, unitVars, clientVars, pgResult>>

\* ORDER BY timestamp ASC: SQL leaves the order of equal timestamps open
orderByTimestamp(rows) ==
  IF rows = <<>> THEN {<<>>}
  ELSE {[i \in DOMAIN rows |-> rows[p[i]]] :
          p \in {q \in Permutations(DOMAIN rows) :
                   \A i, j \in DOMAIN rows :
                     i < j => rows[q[i]].timestamp <= rows[q[j]].timestamp}}

\* rows.map(...): `unit: row.unit || undefined`
rowToTransaction(row) ==
  [row EXCEPT !.unit = IF truthy(row.unit) THEN row.unit ELSE undefined]

\* getTransactionsPG: the SELECT; [] from the catch on any other error
getTransactionsPG(r) ==
  /\ req[r].pc = "pgSelect"
  /\ \E outcome \in Outcomes :
       /\ Charge(outcome)
       /\ IF outcome = "fail"
            THEN /\ req' = [req EXCEPT ![r] = respond(r, <<>>, TRUE)]
                 /\ lastRead' = <<>>
          ELSE IF ~pgTable.exists
            THEN /\ req' = [req EXCEPT ![r].pc = "pgEnsureRead"]
                 /\ UNCHANGED lastRead
          ELSE \E rows \in orderByTimestamp(pgTable.rows) :
                 LET txs == [i \in DOMAIN rows |-> rowToTransaction(rows[i])]
                 IN /\ req' = [req EXCEPT ![r] = respond(r, txs, FALSE)]
                    /\ lastRead' = txs
  /\ UNCHANGED <<env, now, pgTable, blobFile, dataFile, foldVars, calls, unitVars, clientVars, pgResult>>

Next ==
  \E r \in Reqs :
    \/ GET(r)
    \/ POST(r)
    \/ ensureDataFile_access(r)
    \/ ensureDataFile_create(r)
    \/ getTransactionsLocal(r)
    \/ addTransactionLocal(r)
    \/ getTransactionsBlob(r)
    \/ addTransactionBlob(r)
    \/ addTransactionPG(r)
    \/ ensureTable(r)
    \/ addTransactionPG_retry(r)
    \/ getTransactionsPG(r)

Spec == Init /\ [][Next]_vars

(***************************************************************************)
(* One process that serves its requests one after the other                *)
(* (specification SpecSerial): a request starts when no other is being     *)
(* served.                                                                 *)
(***************************************************************************)
Serial(r) == \A q \in Reqs \ {r} : req[q].pc \in {"idle", "done"}

NextSerial ==
  \E r \in Reqs :
    \/ Serial(r) /\ GET(r)
    \/ Serial(r) /\ POST(r)
    \/ ensureDataFile_access(r)
    \/ ensureDataFile_create(r)
    \/ getTransactionsLocal(r)
    \/ addTransactionLocal(r)
    \/ getTransactionsBlob(r)
    \/ addTransactionBlob(r)
    \/ addTransactionPG(r)
    \/ ensureTable(r)
    \/ addTransactionPG_retry(r)
    \/ getTransactionsPG(r)

SpecSerial == Init /\ [][NextSerial]_vars

(***************************************************************************)
(* Claims about the ledger and the route, checked under Spec.              *)
(***************************************************************************)
\* C1: once every request has returned and no I/O operation has failed, the
\* stored history holds exactly one transaction per addTransaction call
\* that returned without throwing (no append is lost to another writer's
\* read-then-overwrite).
C1_NoLostUpdate ==
  (faults = 0 /\ \A r \in Reqs : req[r].pc = "done")
    => Len(Stored) = Cardinality({r \in Reqs : req[r].added})

\* C2: the ledger is append-only as seen by its readers: while no I/O
\* operation fails, each result of getTransactions is a prefix of the next
\* result of getTransactions.
C2_ReadsGrowByAppending ==
  [][faults' = 0 => IsPrefix(lastRead, lastRead')]_vars

\* C3: a step of an addTransaction whose read of the backend has failed
\* removes nothing from what is durably stored.
C3_FailedReadKeepsHistory ==
  [][\A r \in Reqs :
       (req[r].inAdd /\ req[r].readFailed /\ req'[r] # req[r])
         => Range(Stored) \subseteq Range(Stored')]_vars

\* C4: a getInventory whose read of the backend failed while the stored
\* history is not empty does not answer 200 with an empty history.
C4_ReadFailureSurfaced ==
  [][\A r \in Reqs :
       (/\ req'[r] # req[r]
        /\ req'[r].pc = "done"
        /\ req'[r].readFailed
        /\ Stored # <<>>)
         => ~(req'[r].status = 200 /\ req'[r].transactions = <<>>)]_vars

\* the i-th transaction of txs is an Add in a unit other than the one its
\* key holds with a balance > 0
unitConflict(txs, i) ==
  LET seen == fold(SubSeq(txs, 1, i - 1))
      key == toLowerCase(txs[i].name)
  IN /\ txs[i].type = "ADD"
     /\ has(seen, key)
     /\ get(seen, key).quantity > 0
     /\ get(seen, key).unit # txs[i].unit

\* C6: a POST whose Add met a unit conflict (in the history its own
\* getInventory folded) is not answered with the ordinary success (200).
C6_UnitConflictReported ==
  \A r \in Reqs :
    (/\ req[r].pc = "done"
     /\ req[r].method = "POST"
     /\ \E i \in DOMAIN req[r].transactions :
          /\ req[r].transactions[i] = req[r].newTransaction
          /\ unitConflict(req[r].transactions, i))
      => req[r].status # 200

\* C19: every stored transaction, and every transaction getTransactions
\* returned, has a unit that is present, not empty and no alias that
\* normalize rewrites, and every transaction addTransaction built carries
\* the quantity and unit that one application of normalize gives for the
\* raw quantity and label, whatever that label.
C19_StoredUnitCanonical ==
  /\ \A i \in DOMAIN Stored :
       truthy(Stored[i].unit) /\ normalize(1, Stored[i].unit).unit = Stored[i].unit
  /\ \A i \in DOMAIN lastRead :
       truthy(lastRead[i].unit) /\ normalize(1, lastRead[i].unit).unit = lastRead[i].unit
  /\ \A r \in Reqs :
       req[r].newTransaction # NoTransaction
         => LET n == normalize(req[r].parsed.quantity, req[r].parsed.unit)
            IN /\ req[r].newTransaction.quantity = n.quantity
               /\ req[r].newTransaction.unit = n.unit

\* C20: while no I/O operation fails, what getTransactions returned last is
\* in ascending order of timestamp (the least the claim asks for: it also
\* fixes the order of transactions of equal timestamp).
C20_ReadsOrderedByTimestamp ==
  faults = 0 =>
    \A i, j \in DOMAIN lastRead :
      i < j => lastRead[i].timestamp <= lastRead[j].timestamp

\* C22: while no I/O operation fails, the getInventory that a POST issues
\* after its addTransaction returned without throwing reads a history that
\* holds a transaction with the id of the one that addTransaction returned.
C22_ReadAfterWrite ==
  \A r \in Reqs :
    (faults = 0 /\ req[r].pc = "done" /\ req[r].added /\ req[r].status = 200)
      => \E i \in DOMAIN req[r].transactions :
           req[r].transactions[i].id = req[r].newTransaction.id

\* C25: while no I/O operation fails, a step of a request that is reading
\* (a GET, or a POST outside its addTransaction) leaves the stored history
\* as it was, so a read never erases or overwrites a transaction that an
\* append has stored.
C25_ReadsLeaveLedgerAlone ==
  [][faults' = 0 =>
       \A r \in Reqs :
         (req'[r] # req[r] /\ ~req[r].inAdd /\ ~req'[r].inAdd) =>
           Stored' = Stored]_vars

\* the steps of getTransactions and addTransaction on a backend
stepsOf(b) ==
  IF b = "pg" THEN {"pgSelect", "pgInsert", "pgEnsureAdd", "pgEnsureRead", "pgRetry"}
  ELSE IF b = "blob" THEN {"blobFetch", "blobPut"}
  ELSE {"access", "create", "readFile", "writeFile"}

\* nothing has touched the store
untouched(store) == ~store.exists

\* production with neither POSTGRES_URL nor BLOB_READ_WRITE_TOKEN
productionWithoutStore == env.production /\ ~env.USE_POSTGRES /\ ~env.USE_BLOB

\* C28: the reads and the writes of a process all go to one backend,
\* Postgres when it is configured, else Blob when it is configured, else the
\* local file, and leave the two other stores untouched; and in production
\* with neither Postgres nor Blob every accepted POST is answered 500, its
\* addTransaction not having returned and no store having been written,
\* while every getTransactions returns [], so every GET answers 200 with an
\* empty inventory.
C28_OneBackendAndNoneInProduction ==
  /\ \A r \in Reqs : req[r].pc \notin {"idle", "done"} => req[r].pc \in stepsOf(backend)
  /\ backend = (IF env.USE_POSTGRES THEN "pg" ELSE IF env.USE_BLOB THEN "blob" ELSE "local")
  /\ backend # "pg" => untouched(pgTable)
  /\ backend # "blob" => untouched(blobFile)
  /\ backend # "local" => untouched(dataFile)
  /\ productionWithoutStore =>
       /\ untouched(pgTable) /\ untouched(blobFile) /\ untouched(dataFile)
       /\ Stored = <<>>
       /\ lastRead = <<>>
       /\ \A r \in Reqs :
            /\ ~req[r].added
            /\ req[r].transactions = <<>>
            /\ req[r].method = "GET" => (req[r].status = 200 /\ req[r].inventory = <<>>)
            /\ (req[r].method = "POST" /\ accepted(req[r].parsed)) => req[r].status = 500

\* in production without a store an accepted POST has been answered 500 and
\* a GET after it 200
C28_Witness ==
  /\ productionWithoutStore
  /\ req[1].method = "POST" /\ accepted(req[1].parsed) /\ req[1].status = 500
  /\ req[2].method = "GET" /\ req[2].status = 200 /\ req[2].pc = "done"

\* the last transaction of key by timestamp (of equal timestamps, the one
\* inserted later)
lastByTimestamp(txs, key) ==
  LET hits == {i \in DOMAIN txs : toLowerCase(txs[i].name) = key}
  IN txs[CHOOSE i \in hits :
           \A j \in hits : \/ txs[j].timestamp < txs[i].timestamp
                           \/ (txs[j].timestamp = txs[i].timestamp /\ j <= i)]

\* C11: every item of a snapshot that a request answered with, while no I/O
\* operation failed, carries the name (in its original capitalization) of
\* the last transaction by timestamp of the item's key in the history the
\* snapshot was computed from.
C11_NameOfLastByTimestamp ==
  \A r \in Reqs :
    (faults = 0 /\ req[r].pc = "done" /\ req[r].status = 200)
      => \A k \in DOMAIN req[r].inventory :
           req[r].inventory[k].name
             = lastByTimestamp(req[r].transactions,
                               toLowerCase(req[r].inventory[k].name)).name

(***************************************************************************)
(* SpecFold: the aggregation on its own.  The history grows by one stored  *)
(* transaction at a time and getInventory recomputes the snapshot from the *)
(* whole history, as the POST handler does after each addTransaction.      *)
(***************************************************************************)
FoldNames == {<<"E","i">>, <<"e","i">>, <<"Ö","l">>}
FoldUnits == {g, stueck}
FoldTypes == {"ADD", "REMOVE"}
\* the quantities of the stored transactions: the smallest and the largest
FoldQuantities == {1, MaxQty}

\* the server stands idle under SpecFold
IdleServer ==
  /\ env = [USE_POSTGRES |-> FALSE, USE_BLOB |-> FALSE, production |-> FALSE]
  /\ now = 0
  /\ pgTable = [exists |-> FALSE, rows |-> <<>>]
  /\ blobFile = [exists |-> FALSE, data |-> <<>>]
  /\ dataFile = [exists |-> FALSE, data |-> <<>>]
  /\ req = [r \in Reqs |-> IdleReq]
  /\ faults = 0
  /\ lastRead = <<>>
  /\ pgResult = <<>>

InitFold ==
  /\ transactions = <<>>
  /\ inventoryMap = <<>>
  /\ result = <<>>
  /\ calls = 0
  /\ IdleServer
  /\ IdleUnits
  /\ IdleClient

\* one more stored transaction, then getInventory on the whole history
getInventoryAfterAppend ==
  /\ Len(transactions) < MaxLen
  /\ \E type \in FoldTypes, name \in FoldNames, quantity \in FoldQuantities, unit \in FoldUnits :
       LET n == Len(transactions) + 1
       IN transactions' = Append(transactions,
                                 Transaction(<<n, "a">>, n, type, name, quantity, unit))
  /\ inventoryMap' = fold(transactions')
  /\ result' = emit(inventoryMap', transactions')
  /\ UNCHANGED <<serverVars, calls, unitVars, clientVars, pgResult>>

NextFold == getInventoryAfterAppend

SpecFold == InitFold /\ [][NextFold]_vars

(***************************************************************************)
(* SpecCalls: getInventory called any number of times between appends.     *)
(* The history is handed over as getTransactions returns it; each call     *)
(* runs the whole function, from `new Map()` to the returned array.        *)
(***************************************************************************)
InitCalls == InitFold

\* one more stored transaction; no snapshot is computed
appendTransaction ==
  /\ Len(transactions) < MaxHistory
  /\ \E type \in FoldTypes, name \in FoldNames, quantity \in FoldQuantities, unit \in FoldUnits :
       LET n == Len(transactions) + 1
       IN transactions' = Append(transactions,
                                 Transaction(<<n, "a">>, n, type, name, quantity, unit))
  /\ calls' = 0
  /\ UNCHANGED <<inventoryMap, result, serverVars, unitVars, clientVars, pgResult>>

\* one call of getInventory on the history as it stands
getInventory ==
  /\ calls < MaxCalls
  /\ inventoryMap' = fold(transactions)
  /\ result' = emit(inventoryMap', transactions)
  /\ calls' = calls + 1
  /\ UNCHANGED <<transactions, serverVars, unitVars, clientVars, pgResult>>

NextCalls == appendTransaction \/ getInventory

SpecCalls == InitCalls /\ [][NextCalls]_vars

(***************************************************************************)
(* SpecNormalize: normalize on its own, applied once to a raw quantity and *)
(* a raw unit label as addTransaction receives them.                       *)
(***************************************************************************)
\* unit labels: absent, empty, blank, the aliases in several spellings and
\* capitalizations, with and without surrounding whitespace, and labels
\* that are no alias
RawUnits ==
  { undefined, <<>>, <<" ">>, <<"\t"," ">>,
    <<"k","g">>, <<"K","g">>, <<" ","K","G"," ">>, <<"k","i","l","o">>,
    <<"k","i","l","o","g","r","a","m","m">>, <<"k","i","l","o","g","r","a","m">>,
    <<"K","i","l","o","g","r","a","m","m"," ">>,
    <<"g">>, <<"G">>, <<"g","r">>, <<"g","r","a","m","m">>, <<"g","r","a","m">>,
    <<"l">>, <<"L">>, <<"l","i","t","e","r">>, <<" ","L","i","t","e","r">>,
    <<"m","l">>, <<"M","L">>, <<"m","i","l","l","i","l","i","t","e","r">>,
    <<"M","i","l","l","i","l","i","t","e","r","\n">>,
    <<"S","t","ü","c","k">>, <<"s","t","ü","c","k">>,
    <<" ","D","o","s","e"," ">>, <<"c","o","u","n","t">> }

RawQuantities == (0 - MaxRawQty)..MaxRawQty

InitNormalize ==
  /\ raw \in [quantity : RawQuantities, unit : RawUnits]
  /\ unitResult = NotNormalized
  /\ unitAgain = NotNormalized
  /\ IdleClient
  /\ transactions = <<>>
  /\ inventoryMap = <<>>
  /\ result = <<>>
  /\ calls = 0
  /\ IdleServer

\* const normalized = normalize(quantity, unit)
callNormalize ==
  /\ unitResult = NotNormalized
  /\ unitResult' = normalize(raw.quantity, raw.unit)
  /\ UNCHANGED <<raw, unitAgain, foldVars, calls, serverVars, clientVars, pgResult>>

\* normalize applied to the record that normalize returned
callNormalizeAgain ==
  /\ unitResult # NotNormalized
  /\ unitAgain = NotNormalized
  /\ unitAgain' = normalize(unitResult.quantity, unitResult.unit)
  /\ UNCHANGED <<raw, unitResult, foldVars, calls, serverVars, clientVars, pgResult>>

NextNormalize == callNormalize \/ callNormalizeAgain

SpecNormalize == InitNormalize /\ [][NextNormalize]_vars

(***************************************************************************)
(* SpecClient: the page (app/page.tsx).  processCommand posts the spoken   *)
(* command to the route, and on a good answer records the transaction in   *)
(* the browser's localStorage; the steps after the `await`s run without    *)
(* interruption.                                                           *)
(***************************************************************************)
InitClient ==
  /\ IdleClient
  /\ transactions = <<>>
  /\ inventoryMap = <<>>
  /\ result = <<>>
  /\ calls = 0
  /\ IdleServer
  /\ IdleUnits

\* the status of the route's answer: 400 when its guard rejects the intent,
\* else 200, or 500 when addTransaction or getInventory threw
Statuses(parsed) == IF accepted(parsed) THEN {200, 500} ELSE {400}

\* the transaction processCommand builds: the id is the clock value alone
clientTransactionOf(parsed, time) ==
  LET normalized == normalize(parsed.quantity, parsed.unit)
  IN Transaction(<<time>>, time,
                 IF parsed.action = "add" THEN "ADD" ELSE "REMOVE",
                 parsed.item, normalized.quantity, normalized.unit)

\* processCommand.  Its fetch makes the route handle the command first (the
\* route does not look at `parseOnly`): one POST at a time on the local
\* file, which answers 400 when the guard rejects the intent, 500 when the
\* write of addTransactionLocal throws, and else 200 with the transaction
\* appended to the file.  On a 200 answer whose `parsed` is not "unknown"
\* the page then records its own transaction in localStorage and shows
\* calculateInventory of it.  Only the 200 and the 400 answers carry
\* `parsed`.
processCommand ==
  /\ Len(localStorage) < MaxCommands
  /\ \E parsedData \in Answers, time \in now..MaxClock, suffix \in IdSuffixes :
       LET parsed == parseCommand(parsedData)
       IN \E status \in Statuses(parsed), clientTime \in time..MaxClock :
            /\ status = 400 => (time = now /\ clientTime = now /\ suffix = "a")
            /\ status = 500 => (clientTime = time /\ suffix = "a")
            /\ now' = clientTime
            /\ dataFile' =
                 IF status = 400 THEN dataFile
                 ELSE IF status = 500 THEN [dataFile EXCEPT !.exists = TRUE]
                 ELSE [exists |-> TRUE,
                       data |-> Append(dataFile.data,
                                       newTransactionOf(parsed, time, suffix))]
            /\ IF status = 200 /\ parsed.action # "unknown"
                 THEN LET txs == Append(localStorage,
                                        clientTransactionOf(parsed, clientTime))
                      IN /\ localStorage' = txs
                         /\ inventory' = calculateInventory(txs)
                         /\ handled' = [answer |-> parsedData, status |-> status,
                                        recorded |-> TRUE]
               ELSE /\ UNCHANGED <<localStorage, inventory>>
                    /\ handled' = [answer |-> parsedData, status |-> status,
                                   recorded |-> FALSE]
  /\ UNCHANGED <<foldVars, calls, unitVars,
                 env, pgTable, blobFile, req, faults, lastRead, pgResult>>

NextClient == processCommand

SpecClient == InitClient /\ [][NextClient]_vars

(***************************************************************************)
(* The same calls on two deployments (specification SpecBackends): one     *)
(* stores in Postgres (pgTable), the other in the local file (dataFile).   *)
(* Every call of addTransaction succeeds on both and is followed by        *)
(* getInventory on both; the two deployments read the same clock and draw  *)
(* the same suffix, so that they store the same record.                    *)
(***************************************************************************)
InitBackends == InitFold

addTransactionThenGetInventory ==
  /\ Len(dataFile.data) < MaxHistory
  /\ \E parsedData \in Answers, time \in now..MaxClock, suffix \in IdSuffixes :
       LET parsed == parseCommand(parsedData)
           newTransaction == newTransactionOf(parsed, time, suffix)
       IN /\ accepted(parsed)
          \* the INSERT succeeds: the id is not in the table
          /\ \A i \in DOMAIN pgTable.rows : pgTable.rows[i].id # newTransaction.id
          /\ now' = time
          /\ pgTable' = [exists |-> TRUE, rows |-> Append(pgTable.rows, newTransaction)]
          /\ dataFile' = [exists |-> TRUE, data |-> Append(dataFile.data, newTransaction)]
  /\ \E rows \in orderByTimestamp(pgTable'.rows) :
       pgResult' = aggregate([i \in DOMAIN rows |-> rowToTransaction(rows[i])])
  /\ inventoryMap' = fold(dataFile'.data)
  /\ result' = emit(inventoryMap', dataFile'.data)
  /\ UNCHANGED <<transactions, calls, unitVars, clientVars,
                 env, blobFile, req, faults, lastRead>>

NextBackends == addTransactionThenGetInventory

SpecBackends == InitBackends /\ [][NextBackends]_vars

(***************************************************************************)
(* Helpers of the claims about the fold.                                   *)
(***************************************************************************)
\* the step just taken folded one more transaction
Folded == Len(transactions') = Len(transactions) + 1
\* that transaction and its key
newTx == transactions'[Len(transactions')]
newKey == toLowerCase(newTx.name)
\* the last transaction of the history, its key, and the Map before it
lastTx == transactions[Len(transactions)]
lastKey == toLowerCase(lastTx.name)
mapBefore == fold(SubSeq(transactions, 1, Len(transactions) - 1))

\* the transactions of one key, in order
RECURSIVE txsOf(_, _)
txsOf(txs, key) ==
  IF txs = <<>> THEN <<>>
  ELSE LET rest == txsOf(SubSeq(txs, 1, Len(txs) - 1), key)
           tx == txs[Len(txs)]
       IN IF toLowerCase(tx.name) = key THEN Append(rest, tx) ELSE rest

\* sum of the Add quantities minus sum of the Remove quantities
RECURSIVE net(_)
net(txs) ==
  IF txs = <<>> THEN 0
  ELSE net(SubSeq(txs, 1, Len(txs) - 1))
       + (IF txs[Len(txs)].type = "ADD" THEN txs[Len(txs)].quantity
          ELSE 0 - txs[Len(txs)].quantity)

sameUnitAddFirst(txs) ==
  /\ txs # <<>>
  /\ txs[1].type = "ADD"
  /\ \A i \in DOMAIN txs : txs[i].unit = txs[1].unit

(***************************************************************************)
(* Claims about the fold, checked under SpecFold.                          *)
(***************************************************************************)
\* C5: an Add whose unit differs from the key's current unit while the
\* key's balance is > 0 does not add its quantity to the balance held in
\* the current unit (the code keeps no per-unit sub-balance, so the balance
\* would have to stay as it was).
C5_NoSilentSum ==
  [][(/\ Folded
      /\ newTx.type = "ADD"
      /\ has(inventoryMap, newKey)
      /\ get(inventoryMap, newKey).quantity > 0
      /\ get(inventoryMap, newKey).unit # newTx.unit)
     => get(inventoryMap', newKey).quantity = get(inventoryMap, newKey).quantity]_vars

\* C7: a Remove whose unit differs from the unit the key currently holds
\* leaves the key's (quantity, unit), and the rest of the Map, as they were,
\* whatever the Remove's quantity.
C7_MismatchedRemoveIsNoOp ==
  [][(/\ Folded
      /\ newTx.type = "REMOVE"
      /\ has(inventoryMap, newKey)
      /\ get(inventoryMap, newKey).unit # newTx.unit)
     => /\ get(inventoryMap', newKey) = get(inventoryMap, newKey)
        /\ inventoryMap' = inventoryMap]_vars

\* C7's case: the last transaction folded is a Remove of more than 1, in a
\* unit other than the one its key held with a positive balance, and the
\* balance is what it was
C7_Witness ==
  /\ transactions # <<>>
  /\ lastTx.type = "REMOVE"
  /\ lastTx.quantity > 1
  /\ has(mapBefore, lastKey)
  /\ get(mapBefore, lastKey).quantity > 0
  /\ get(mapBefore, lastKey).unit # lastTx.unit
  /\ get(inventoryMap, lastKey).quantity = get(mapBefore, lastKey).quantity

\* C8: an Add folded into a key whose balance is exactly 0 (a key not yet in
\* the Map, or one depleted to 0) leaves the key with the Add's unit and
\* the Add's quantity, whatever unit the key held.
C8_AddOnZeroAdoptsUnit ==
  [][(/\ Folded
      /\ newTx.type = "ADD"
      /\ (has(inventoryMap, newKey) => get(inventoryMap, newKey).quantity = 0))
     => /\ get(inventoryMap', newKey).unit = newTx.unit
        /\ get(inventoryMap', newKey).quantity = newTx.quantity]_vars

\* C8's case: an Add in another unit arrives after the key was depleted to 0
C8_Witness ==
  /\ transactions # <<>>
  /\ lastTx.type = "ADD"
  /\ has(mapBefore, lastKey)
  /\ get(mapBefore, lastKey).quantity = 0
  /\ get(mapBefore, lastKey).unit # lastTx.unit
  /\ get(inventoryMap, lastKey).unit = lastTx.unit

\* C9: for a key whose transactions all carry one unit and start with an
\* Add, the folded balance is the sum of the Adds minus the sum of the
\* Removes; a negative intermediate balance is not clamped.
C9_SameUnitBalanceIsNet ==
  \A i \in DOMAIN inventoryMap :
    LET mine == txsOf(transactions, inventoryMap[i].key)
    IN sameUnitAddFirst(mine) => inventoryMap[i].quantity = net(mine)

\* C9's case: Add, then a larger Remove (balance below 0), then an Add that
\* brings the balance above 0 again, all in one unit
C9_Witness ==
  \E i \in DOMAIN inventoryMap :
    LET mine == txsOf(transactions, inventoryMap[i].key)
    IN /\ sameUnitAddFirst(mine)
       /\ Len(mine) = 3
       /\ net(SubSeq(mine, 1, 2)) < 0
       /\ net(mine) > 0
       /\ inventoryMap[i].quantity = net(mine)

\* C10: the snapshot holds exactly one item for each key whose folded
\* quantity is > 0 and none for any other key; every item's quantity is > 0.
C10_SnapshotIsPositiveKeys ==
  /\ \A j \in DOMAIN result : result[j].quantity > 0
  /\ \A i \in DOMAIN inventoryMap :
       LET items == {j \in DOMAIN result : toLowerCase(result[j].name) = inventoryMap[i].key}
       IN /\ inventoryMap[i].quantity > 0 =>
               /\ Cardinality(items) = 1
               /\ \A j \in items : result[j].quantity = inventoryMap[i].quantity
          /\ inventoryMap[i].quantity <= 0 => items = {}

\* C10's case: a key depleted to 0 is absent from a snapshot that shows
\* another key
C10_Witness ==
  /\ Len(result) = 1
  /\ \E i \in DOMAIN inventoryMap :
       /\ inventoryMap[i].quantity = 0
       /\ \A j \in DOMAIN result : toLowerCase(result[j].name) # inventoryMap[i].key


\* a and b differ at most in the case of their letters
sameIgnoringCase(a, b) ==
  /\ Len(a) = Len(b)
  /\ \A i \in DOMAIN a : lowerChar(a[i]) = lowerChar(b[i])

\* the transactions whose name is `name` up to case, in order
RECURSIVE txsNamed(_, _)
txsNamed(txs, name) ==
  IF txs = <<>> THEN <<>>
  ELSE LET rest == txsNamed(SubSeq(txs, 1, Len(txs) - 1), name)
           tx == txs[Len(txs)]
       IN IF sameIgnoringCase(tx.name, name) THEN Append(rest, tx) ELSE rest

\* C12: item identity is case-insensitive.  No two emitted items and no two
\* entries of the Map have names that are equal up to case; every
\* transaction is folded into the one entry whose key is its name up to
\* case; and when the transactions of a name (in any capitalization) are
\* all Adds, that entry's balance is the sum of all of them.
C12_OneBalancePerFoldedName ==
  /\ \A i, j \in DOMAIN result :
       sameIgnoringCase(result[i].name, result[j].name) => i = j
  /\ \A i, j \in DOMAIN inventoryMap :
       sameIgnoringCase(inventoryMap[i].key, inventoryMap[j].key) => i = j
  /\ \A i \in DOMAIN transactions :
       LET mine == txsNamed(transactions, transactions[i].name)
       IN \E k \in DOMAIN inventoryMap :
            /\ sameIgnoringCase(inventoryMap[k].key, transactions[i].name)
            /\ (\A n \in DOMAIN mine : mine[n].type = "ADD")
                 => inventoryMap[k].quantity = net(mine)

\* two Adds whose names differ only in case have been folded into one item
C12_Witness ==
  /\ Len(result) = 1
  /\ \E i, j \in DOMAIN transactions :
       /\ transactions[i].name # transactions[j].name
       /\ sameIgnoringCase(transactions[i].name, transactions[j].name)
       /\ transactions[i].type = "ADD" /\ transactions[j].type = "ADD"
       /\ result[1].quantity >= transactions[i].quantity + transactions[j].quantity


\* all transactions of each key carry the same unit
sameUnitPerKey(txs) ==
  \A i, j \in DOMAIN txs :
    sameIgnoringCase(txs[i].name, txs[j].name) => txs[i].unit = txs[j].unit

\* txs with its i-th and j-th transactions exchanged
swap(txs, i, j) == [txs EXCEPT ![i] = txs[j], ![j] = txs[i]]

\* what a snapshot says apart from the order and the capitalization of its
\* items
balances(items) ==
  {[key |-> toLowerCase(items[k].name),
    quantity |-> items[k].quantity,
    unit |-> items[k].unit] : k \in DOMAIN items}

firstOfKey(i) ==
  \A j \in 1..(i - 1) :
    ~sameIgnoringCase(transactions[j].name, transactions[i].name)

\* the Map entry of the key of the i-th transaction, after the first i
\* transactions
entryAfter(i) ==
  LET m == fold(SubSeq(transactions, 1, i))
  IN CHOOSE e \in Range(m) : sameIgnoringCase(e.key, transactions[i].name)

C26_ClientFoldIsServerFold == calculateInventory(transactions) = result

\* C29: the unit of every emitted item is the unit of at least one Add of
\* the item's key.
C29_EmittedUnitFromSomeAdd ==
  \A k \in DOMAIN result :
    \E n \in DOMAIN transactions :
      /\ transactions[n].type = "ADD"
      /\ sameIgnoringCase(transactions[n].name, result[k].name)
      /\ transactions[n].unit = result[k].unit

Normalized == unitResult # NotNormalized

\* the transaction addTransaction builds from the raw quantity and label
storedOfRaw ==
  newTransactionOf([action |-> "add", item |-> <<"E","i">>,
                    quantity |-> raw.quantity, unit |-> raw.unit], 0, "a")

count == <<"c","o","u","n","t">>

\* C15 as stated: for an absent unit normalize returns the quantity
\* unchanged with unit "count", and the transaction is stored with unit
\* "count".
C15_AbsentUnitIsCount ==
  (Normalized /\ raw.unit = undefined)
    => /\ unitResult = [quantity |-> raw.quantity, unit |-> count]
       /\ storedOfRaw.unit = count

\* C15 amended: for an absent unit normalize returns the quantity unchanged
\* with unit "stück", and the transaction is stored with that quantity and
\* unit "stück".
C15_AbsentUnitIsStueck ==
  (Normalized /\ raw.unit = undefined)
    => /\ unitResult = [quantity |-> raw.quantity, unit |-> stueck]
       /\ storedOfRaw.unit = stueck
       /\ storedOfRaw.quantity = raw.quantity

\* normalize has returned for a quantity of 2 without a unit
C15_Witness ==
  /\ Normalized
  /\ raw = [quantity |-> 2, unit |-> undefined]
  /\ unitResult.unit = stueck


\* C16 as stated: normalize(q, u) = (1000 * q, "g") for u in {"kg", "kilo",
\* "kilogram"} and (q, "g") for u in {"g", "gram", "gr"}.
C16_MassAliasesEnglish ==
  Normalized =>
    /\ raw.unit \in {<<"k","g">>, <<"k","i","l","o">>, <<"k","i","l","o","g","r","a","m">>}
         => unitResult = [quantity |-> 1000 * raw.quantity, unit |-> g]
    /\ raw.unit \in {<<"g">>, <<"g","r","a","m">>, <<"g","r">>}
         => unitResult = [quantity |-> raw.quantity, unit |-> g]

\* C16 amended: normalize(q, u) = (1000 * q, "g") for u in {"kg", "kilo",
\* "kilogramm"} and (q, "g") for u in {"g", "gramm", "gr"}; the English
\* spellings "kilogram" and "gram" are no aliases and come back unchanged
\* with the quantity unchanged.
C16_MassAliasesGerman ==
  Normalized =>
    /\ raw.unit \in {<<"k","g">>, <<"k","i","l","o">>, <<"k","i","l","o","g","r","a","m","m">>}
         => unitResult = [quantity |-> 1000 * raw.quantity, unit |-> g]
    /\ raw.unit \in {<<"g">>, <<"g","r","a","m","m">>, <<"g","r">>}
         => unitResult = [quantity |-> raw.quantity, unit |-> g]
    /\ raw.unit \in {<<"k","i","l","o","g","r","a","m">>, <<"g","r","a","m">>}
         => unitResult = [quantity |-> raw.quantity, unit |-> raw.unit]

\* normalize has turned 2 "kilogramm" into 2000 "g"
C16_Witness ==
  /\ Normalized
  /\ raw = [quantity |-> 2, unit |-> <<"k","i","l","o","g","r","a","m","m">>]
  /\ unitResult = [quantity |-> 2000, unit |-> g]

\* C17: normalize(q, u) = (1000 * q, "ml") for u in {"l", "liter"} and
\* (q, "ml") for u in {"ml", "milliliter"}.
C17_VolumeAliases ==
  Normalized =>
    /\ raw.unit \in {<<"l">>, <<"l","i","t","e","r">>}
         => unitResult = [quantity |-> 1000 * raw.quantity, unit |-> ml]
    /\ raw.unit \in {<<"m","l">>, <<"m","i","l","l","i","l","i","t","e","r">>}
         => unitResult = [quantity |-> raw.quantity, unit |-> ml]

\* normalize has turned 2 "liter" into 2000 "ml"
C17_Witness ==
  /\ Normalized
  /\ raw = [quantity |-> 2, unit |-> <<"l","i","t","e","r">>]
  /\ unitResult = [quantity |-> 2000, unit |-> ml]


\* the labels normalize knows as aliases
Aliases ==
  { <<"k","g">>, <<"k","i","l","o">>, <<"k","i","l","o","g","r","a","m","m">>,
    <<"g">>, <<"g","r","a","m","m">>, <<"g","r">>,
    <<"l">>, <<"l","i","t","e","r">>,
    <<"m","l">>, <<"m","i","l","l","i","l","i","t","e","r">>}

\* C18: normalize is insensitive to case and surrounding whitespace: for
\* every present label u, normalize(q, u) = normalize(q, lowercase(trim(u))),
\* and when lowercase(trim(u)) is no alias the result is
\* (q, lowercase(trim(u))).
C18_CaseAndWhitespaceInsensitive ==
  (Normalized /\ raw.unit # undefined)
    => LET u == toLowerCase(trim(raw.unit))
       IN /\ unitResult = normalize(raw.quantity, u)
          /\ u \notin Aliases => unitResult = [quantity |-> raw.quantity, unit |-> u]

\* C30: normalize applied to the record normalize returned gives that
\* record again, for every quantity and every label, present or absent.
C30_NormalizeIdempotent ==
  unitAgain # NotNormalized => unitAgain = unitResult


(***************************************************************************)
(* Claims about the backends, checked under SpecBackends.                  *)
(***************************************************************************)
\* C27: after the same successful calls of addTransaction, getInventory
\* returns on Postgres the snapshot it returns on the local file.
C27_SnapshotSameOnEveryBackend == pgResult = result

(***************************************************************************)
(* Claims about the page, checked under SpecClient.                        *)
(***************************************************************************)
\* C21: no two transactions stored in the browser have the same id (and
\* likewise on the server, where the id is the clock value and a random
\* suffix), two transactions made within one clock tick included.
C21_IdsUnique ==
  \A i, j \in DOMAIN localStorage :
    localStorage[i].id = localStorage[j].id => i = j


\* the step just taken left the server's file and the browser's
\* localStorage as they were
NoLedgerAction ==
  /\ localStorage' = localStorage
  /\ dataFile'.data = dataFile.data

\* the last transaction of a history
last(txs) == txs[Len(txs)]

\* C23 as stated: a command whose answer has an action other than add and
\* remove, or no item, or no quantity, causes no ledger action, neither on
\* the server nor in the browser.
C23_UnusableIntentIgnored ==
  [][LET a == handled'.answer
     IN (\/ a.action \notin {"add", "remove"}
         \/ ~truthy(a.item)
         \/ a.quantity.typeof # "number")
          => NoLedgerAction]_vars

\* C23 amended: a command whose answer has an action other than add and
\* remove, or no item, causes no ledger action, neither on the server nor
\* in the browser.  A missing quantity is replaced by 1: such a command
\* with an action and an item is not rejected, and when the route answers
\* 200 it has been recorded with quantity normalize(1, unit), on the
\* server and in the browser.
C23_MissingQuantityRecordedAsOne ==
  [][LET a == handled'.answer
     IN /\ (a.action \notin {"add", "remove"} \/ ~truthy(a.item))
             => NoLedgerAction
        /\ (/\ handled' # handled
            /\ a.action \in {"add", "remove"}
            /\ truthy(a.item)
            /\ a.quantity.typeof # "number")
             => /\ handled'.status # 400
                /\ handled'.status = 200
                     => /\ Len(localStorage') = Len(localStorage) + 1
                        /\ Len(dataFile'.data) = Len(dataFile.data) + 1
                        /\ last(localStorage').quantity = normalize(1, a.unit).quantity
                        /\ last(dataFile'.data).quantity = normalize(1, a.unit).quantity]_vars

\* a command without a quantity has been recorded with quantity 1 on the
\* server and in the browser
C23_Witness ==
  /\ handled.answer.quantity = absent
  /\ handled.answer.action = "remove"
  /\ handled.recorded
  /\ last(localStorage).quantity = 1 /\ last(localStorage).type = "REMOVE"
  /\ last(dataFile.data).quantity = 1 /\ last(dataFile.data).type = "REMOVE"

====
